---- MODULE Spec2Model ----
(***************************************************************************)
(* The session layer of sipsimple/primitives.py: Registration and          *)
(* Publication, each owning an in-flight request (_current_request) and a  *)
(* confirmed request (_last_request), driven by caller operations and by   *)
(* the notifications the request engine delivers for observed requests.    *)
(***************************************************************************)
EXTENDS Integers, Sequences, FiniteSets, TLC

\* ------------------------------------------------------------------ bounds
MaxRequests == 3            \* Request objects one session creates in a run
MaxEndCalls == 2            \* end() calls a Message's request receives in a run

\* --------------------------------------------------------------- constants
None == 0                   \* Python None (absent request, call-id, ETag, body)
Duration == 300             \* default duration of __init__
PreconditionFailed == 412   \* the code Publication._NH_SIPRequestDidFail tests

Classes == {"Registration", "Publication", "Message"}
ContactURIs == {1, 2}       \* contact_uri arguments of register
Routes == {1}               \* route arguments
Bodies == {None, 1}         \* body arguments of publish
ETags == {None, 1}          \* value of headers.get("SIP-ETag", None)
ExpiresValues == {Duration}       \* expires of SIPRequestDidSucceed / WillExpire
Codes == {PreconditionFailed, 408}   \* code of SIPRequestDidFail: 412 or another
SendResults == {"ok", "raise", "sync_succeed", "sync_fail"}
MessageExpires == {0, Duration}   \* expires of a MESSAGE's SIPRequestDidSucceed
MessageBodies == {1, 2}           \* content of a Message

VARIABLES
    self,        \* the session object's fields
    requests,    \* the Request objects the session created, in creation order
    observers,   \* requests the session is subscribed to in the notification center
    posted,      \* notifications the session posted during the last operation
    calls,       \* calls made on Request objects during the last operation
    raised,      \* the exception the last operation raised to its caller
    op,          \* the last operation and its arguments
    reader       \* a caller thread reading contact_uri or expires_in

vars == <<self, requests, observers, posted, calls, raised, op, reader>>

\* ------------------------------------------------------ the Request engine
\* Request(...): the constructor keeps the call_id it is given and generates
\* a fresh one when given None; n is the index of the object being created.
Request(method, call_id, cseq, contact_uri, route, expires, if_match, body, n) ==
    [method      |-> method,
     call_id_arg |-> call_id,
     call_id     |-> IF call_id = None THEN n ELSE call_id,
     cseq        |-> cseq,
     contact_uri |-> contact_uri,
     route       |-> route,
     Expires     |-> expires,
     if_match    |-> if_match,
     body        |-> body,
     state       |-> "INIT",
     end_calls   |-> 0]

\* The world an operation runs in and changes.
World == [self |-> self, requests |-> requests, observers |-> observers,
          posted |-> <<>>, calls |-> <<>>, raised |-> "none", seen |-> <<>>]

post_notification(w, n) == [w EXCEPT !.posted = Append(@, n)]
add_observer(w, r)      == [w EXCEPT !.observers = @ \cup {r}]
remove_observer(w, r)   == [w EXCEPT !.observers = @ \ {r}]

\* request.end(): asynchronous and advisory, returns at once.
Request_end(w, r) ==
    [w EXCEPT !.requests[r].end_calls = @ + 1,
              !.calls = Append(@, <<"end", r>>)]

\* ------------------------------------------------------------ Registration
Registration_init ==
    [class |-> "Registration", current_request |-> None, last_request |-> None,
     unregistering |-> FALSE]

Registration_is_registered(s) == s.last_request # None

\* contact_uri reporting the newest request's contact instead of the
\* confirmed one's.
Registration_contact_uri_of_newest(s, reqs) ==
    IF s.last_request = None THEN None ELSE reqs[Len(reqs)].contact_uri

Registration_contact_uri(s, reqs) ==
    IF s.last_request = None THEN None ELSE reqs[s.last_request].contact_uri

\* Registration._NH_SIPRequestDidSucceed with the line
\* "self._current_request = None" left out.
Registration_NH_SIPRequestDidSucceed_keeping_current(w, request, code, expires) ==
    IF request # w.self.current_request THEN w
    ELSE
      IF w.self.unregistering
      THEN LET w2 == IF w.self.last_request # None
                     THEN [Request_end(w, w.self.last_request)
                             EXCEPT !.self.last_request = None]
                     ELSE w
           IN post_notification(w2, [name |-> "SIPRegistrationDidEnd",
                                     expired |-> FALSE])
      ELSE post_notification([w EXCEPT !.self.last_request = request],
                             [name |-> "SIPRegistrationDidSucceed",
                              code |-> code,
                              contact_uri |-> w.requests[request].contact_uri,
                              expires_in |-> expires,
                              route |-> w.requests[request].route])

Registration_NH_SIPRequestDidSucceed(w, request, code, expires) ==
    IF request # w.self.current_request THEN w
    ELSE
      LET w1 == [w EXCEPT !.self.current_request = None] IN
      IF w1.self.unregistering
      THEN LET w2 == IF w1.self.last_request # None
                     THEN [Request_end(w1, w1.self.last_request)
                             EXCEPT !.self.last_request = None]
                     ELSE w1
           IN post_notification(w2, [name |-> "SIPRegistrationDidEnd",
                                     expired |-> FALSE])
      ELSE post_notification([w1 EXCEPT !.self.last_request = request],
                             [name |-> "SIPRegistrationDidSucceed",
                              code |-> code,
                              contact_uri |-> w.requests[request].contact_uri,
                              expires_in |-> expires,
                              route |-> w.requests[request].route])

\* Registration._NH_SIPRequestDidFail with the line
\* "self._current_request = None" left out.
Registration_NH_SIPRequestDidFail_keeping_current(w, request, code) ==
    IF request # w.self.current_request THEN w
    ELSE
      IF w.self.unregistering
      THEN post_notification(w, [name |-> "SIPRegistrationDidNotEnd",
                                 code |-> code])
      ELSE post_notification(w, [name |-> "SIPRegistrationDidFail",
                                 code |-> code,
                                 route |-> w.requests[request].route])

Registration_NH_SIPRequestDidFail(w, request, code) ==
    IF request # w.self.current_request THEN w
    ELSE
      LET w1 == [w EXCEPT !.self.current_request = None] IN
      IF w1.self.unregistering
      THEN post_notification(w1, [name |-> "SIPRegistrationDidNotEnd",
                                  code |-> code])
      ELSE post_notification(w1, [name |-> "SIPRegistrationDidFail",
                                  code |-> code,
                                  route |-> w.requests[request].route])

Registration_NH_SIPRequestWillExpire(w, request, expires) ==
    IF request # w.self.last_request THEN w
    ELSE post_notification(w, [name |-> "SIPRegistrationWillExpire",
                               expires |-> expires])

\* Registration._NH_SIPRequestDidEnd without the cancellation of
\* _current_request.
Registration_NH_SIPRequestDidEnd_keeping_current(w, request) ==
    LET w1 == remove_observer(w, request) IN
    IF request # w1.self.last_request THEN w1
    ELSE post_notification([w1 EXCEPT !.self.last_request = None],
                           [name |-> "SIPRegistrationDidEnd",
                            expired |-> TRUE])

Registration_NH_SIPRequestDidEnd(w, request) ==
    LET w1 == remove_observer(w, request) IN
    IF request # w1.self.last_request THEN w1
    ELSE
      LET w2 == [w1 EXCEPT !.self.last_request = None]
          w3 == IF w2.self.current_request # None
                THEN [Request_end(w2, w2.self.current_request)
                        EXCEPT !.self.current_request = None]
                ELSE w2
      IN post_notification(w3, [name |-> "SIPRegistrationDidEnd",
                                expired |-> TRUE])

\* ------------------------------------------------------------- Publication
Publication_init ==
    [class |-> "Publication", current_request |-> None, last_request |-> None,
     unpublishing |-> FALSE, last_etag |-> None]

Publication_is_published(s) == s.last_request # None

\* Publication._NH_SIPRequestDidSucceed retiring _last_request without
\* calling its end().
Publication_NH_SIPRequestDidSucceed_without_end(w, request, code, etag, expires) ==
    IF request # w.self.current_request THEN w
    ELSE
      LET w1 == [w EXCEPT !.self.current_request = None] IN
      IF w1.self.unpublishing
      THEN post_notification([w1 EXCEPT !.self.last_request = None,
                                        !.self.last_etag = None],
                             [name |-> "SIPPublicationDidEnd",
                              expired |-> FALSE])
      ELSE post_notification([w1 EXCEPT !.self.last_request = request,
                                        !.self.last_etag = etag],
                             [name |-> "SIPPublicationDidSucceed",
                              code |-> code,
                              expires_in |-> expires,
                              route |-> w.requests[request].route])

Publication_NH_SIPRequestDidSucceed(w, request, code, etag, expires) ==
    IF request # w.self.current_request THEN w
    ELSE
      LET w1 == [w EXCEPT !.self.current_request = None] IN
      IF w1.self.unpublishing
      THEN LET w2 == IF w1.self.last_request # None
                     THEN [Request_end(w1, w1.self.last_request)
                             EXCEPT !.self.last_request = None]
                     ELSE w1
               w3 == [w2 EXCEPT !.self.last_etag = None]
           IN post_notification(w3, [name |-> "SIPPublicationDidEnd",
                                     expired |-> FALSE])
      ELSE post_notification([w1 EXCEPT !.self.last_request = request,
                                        !.self.last_etag = etag],
                             [name |-> "SIPPublicationDidSucceed",
                              code |-> code,
                              expires_in |-> expires,
                              route |-> w.requests[request].route])

\* Publication._NH_SIPRequestDidFail testing the code before it tests
\* whether the request is the current one.
Publication_NH_SIPRequestDidFail_412_first(w, request, code) ==
    LET w0 == IF code = PreconditionFailed
              THEN [w EXCEPT !.self.last_etag = None]
              ELSE w
    IN IF request # w0.self.current_request THEN w0
       ELSE
         LET w1 == [w0 EXCEPT !.self.current_request = None]
         IN IF w1.self.unpublishing
            THEN post_notification(w1, [name |-> "SIPPublicationDidNotEnd",
                                        code |-> code])
            ELSE post_notification(w1, [name |-> "SIPPublicationDidFail",
                                        code |-> code,
                                        route |-> w.requests[request].route])

\* Publication._NH_SIPRequestDidFail with the 412 test moved into the
\* branch of a failed publish, so a failed teardown skips it.
Publication_NH_SIPRequestDidFail_412_on_publish_only(w, request, code) ==
    IF request # w.self.current_request THEN w
    ELSE
      LET w1 == [w EXCEPT !.self.current_request = None]
          w2 == IF code = PreconditionFailed
                THEN [w1 EXCEPT !.self.last_etag = None]
                ELSE w1
      IN IF w1.self.unpublishing
         THEN post_notification(w1, [name |-> "SIPPublicationDidNotEnd",
                                     code |-> code])
         ELSE post_notification(w2, [name |-> "SIPPublicationDidFail",
                                     code |-> code,
                                     route |-> w.requests[request].route])

Publication_NH_SIPRequestDidFail(w, request, code) ==
    IF request # w.self.current_request THEN w
    ELSE
      LET w1 == [w EXCEPT !.self.current_request = None]
          w2 == IF code = PreconditionFailed
                THEN [w1 EXCEPT !.self.last_etag = None]
                ELSE w1
      IN IF w2.self.unpublishing
         THEN post_notification(w2, [name |-> "SIPPublicationDidNotEnd",
                                     code |-> code])
         ELSE post_notification(w2, [name |-> "SIPPublicationDidFail",
                                     code |-> code,
                                     route |-> w.requests[request].route])

Publication_NH_SIPRequestWillExpire(w, request, expires) ==
    IF request # w.self.last_request THEN w
    ELSE post_notification(w, [name |-> "SIPPublicationWillExpire",
                               expires |-> expires])

\* Publication._NH_SIPRequestDidEnd without "self._last_etag = None".
Publication_NH_SIPRequestDidEnd_keeping_etag(w, request) ==
    LET w1 == remove_observer(w, request) IN
    IF request # w1.self.last_request THEN w1
    ELSE
      LET w2 == [w1 EXCEPT !.self.last_request = None]
          w3 == IF w2.self.current_request # None
                THEN [Request_end(w2, w2.self.current_request)
                        EXCEPT !.self.current_request = None]
                ELSE w2
      IN post_notification(w3, [name |-> "SIPPublicationDidEnd",
                                expired |-> TRUE])

\* Publication._NH_SIPRequestDidEnd removing the observer only when the
\* request is _last_request.
Publication_NH_SIPRequestDidEnd_unsubscribing_last_only(w, request) ==
    IF request # w.self.last_request THEN w
    ELSE
      LET w1 == remove_observer(w, request)
          w2 == [w1 EXCEPT !.self.last_request = None]
          w3 == IF w2.self.current_request # None
                THEN [Request_end(w2, w2.self.current_request)
                        EXCEPT !.self.current_request = None]
                ELSE w2
          w4 == [w3 EXCEPT !.self.last_etag = None]
      IN post_notification(w4, [name |-> "SIPPublicationDidEnd",
                                expired |-> TRUE])

Publication_NH_SIPRequestDidEnd(w, request) ==
    LET w1 == remove_observer(w, request) IN
    IF request # w1.self.last_request THEN w1
    ELSE
      LET w2 == [w1 EXCEPT !.self.last_request = None]
          w3 == IF w2.self.current_request # None
                THEN [Request_end(w2, w2.self.current_request)
                        EXCEPT !.self.current_request = None]
                ELSE w2
          w4 == [w3 EXCEPT !.self.last_etag = None]
      IN post_notification(w4, [name |-> "SIPPublicationDidEnd",
                                expired |-> TRUE])

\* ----------------------------------------------------------------- Message
\* __init__ builds the one Request the Message holds for its whole life.
Message_init == [class |-> "Message", request |-> 1]

Message_init_requests(route, body) ==
    <<Request("MESSAGE", None, None, None, route, None, None, body, 1)>>

Message_is_sent(w) == w.requests[w.self.request].state # "INIT"

Message_NH_SIPRequestDidSucceed(w, request, expires) ==
    LET w1 == IF expires # 0 THEN Request_end(w, request) ELSE w
    IN post_notification(w1, [name |-> "SIPMessageDidSucceed"])

Message_NH_SIPRequestDidFail(w, request, code) ==
    post_notification(w, [name |-> "SIPMessageDidFail", code |-> code])

Message_NH_SIPRequestDidEnd(w, request) == remove_observer(w, request)

\* ------------------------------------------------- notification dispatch
\* The notification center hands a request's notification to the session
\* only while the session observes that request; the handler is picked by
\* the notification's name.
handle_notification(w, name, request, code, etag, expires) ==
    IF request \notin w.observers THEN w
    ELSE IF w.self.class = "Registration"
    THEN CASE name = "SIPRequestDidSucceed" ->
                 Registration_NH_SIPRequestDidSucceed(w, request, code, expires)
           [] name = "SIPRequestDidFail" ->
                 Registration_NH_SIPRequestDidFail(w, request, code)
           [] name = "SIPRequestWillExpire" ->
                 Registration_NH_SIPRequestWillExpire(w, request, expires)
           [] name = "SIPRequestDidEnd" ->
                 Registration_NH_SIPRequestDidEnd(w, request)
    ELSE IF w.self.class = "Publication"
    THEN CASE name = "SIPRequestDidSucceed" ->
                 Publication_NH_SIPRequestDidSucceed(w, request, code, etag, expires)
           [] name = "SIPRequestDidFail" ->
                 Publication_NH_SIPRequestDidFail(w, request, code)
           [] name = "SIPRequestWillExpire" ->
                 Publication_NH_SIPRequestWillExpire(w, request, expires)
           [] name = "SIPRequestDidEnd" ->
                 Publication_NH_SIPRequestDidEnd(w, request)
    ELSE CASE name = "SIPRequestDidSucceed" ->
                 Message_NH_SIPRequestDidSucceed(w, request, expires)
           [] name = "SIPRequestDidFail" ->
                 Message_NH_SIPRequestDidFail(w, request, code)
           [] name = "SIPRequestWillExpire" -> w
           [] name = "SIPRequestDidEnd" ->
                 Message_NH_SIPRequestDidEnd(w, request)

\* request.send(timeout): raises when the engine cannot begin sending;
\* otherwise the request is in progress, and the engine may deliver its
\* outcome on the same call stack before send returns. A callback run that
\* way records its notification and the _current_request it found.
Request_send(w, r, send_result) ==
    IF send_result = "raise"
    THEN [w EXCEPT !.raised = "SendError"]
    ELSE
      LET w1 == [w EXCEPT !.requests[r].state = "IN_PROGRESS",
                          !.calls = Append(@, <<"send", r>>)]
          w2 == IF w1.self.class = "Message" THEN w1
                ELSE [w1 EXCEPT !.seen =
                        <<[notification |-> IF send_result = "sync_succeed"
                                            THEN "SIPRequestDidSucceed"
                                            ELSE "SIPRequestDidFail",
                           current_request |-> w1.self.current_request]>>]
      IN CASE send_result = "ok" -> w1
           [] send_result = "sync_succeed" ->
                handle_notification(w2,
                                    "SIPRequestDidSucceed", r, 200, 1, Duration)
           [] send_result = "sync_fail" ->
                handle_notification(w2,
                                    "SIPRequestDidFail", r, PreconditionFailed,
                                    None, 0)

\* Registration's request built from _current_request alone, without the
\* "or self._last_request" of prev_request.
Registration_new_request_from_current_only(w, contact_uri, route, do_register) ==
    LET prev_request == w.self.current_request
        call_id == IF prev_request # None
                   THEN w.requests[prev_request].call_id ELSE None
        cseq    == IF prev_request # None
                   THEN w.requests[prev_request].cseq + 1 ELSE 1
    IN Request("REGISTER", call_id, cseq, contact_uri, route,
               IF do_register THEN Duration ELSE 0, None, None,
               Len(w.requests) + 1)

\* ------------------------------------------------------ Message operations
\* Message.send without the is_sent test.
Message_send_without_is_sent_test(w, send_result) ==
    LET request == w.self.request
        w1 == add_observer(w, request)
        w2 == Request_send(w1, request, send_result)
    IN IF w2.raised # "none"
       THEN [remove_observer(w2, request) EXCEPT !.raised = "none"]
       ELSE w2

\* Message.send: the except clause removes the observer and does not
\* re-raise, so send returns normally when request.send raised.
Message_send(w, send_result) ==
    IF Message_is_sent(w)
    THEN [w EXCEPT !.raised = "RuntimeError"]
    ELSE
      LET request == w.self.request
          w1 == add_observer(w, request)
          w2 == Request_send(w1, request, send_result)
      IN IF w2.raised # "none"
         THEN [remove_observer(w2, request) EXCEPT !.raised = "none"]
         ELSE w2

Message_end(w) == Request_end(w, w.self.request)

\* ---------------------------------------------- Registration operations
\* The Request that _make_and_send_request constructs: call-id and cseq are
\* taken from the previous request, _current_request or else _last_request.
Registration_new_request(w, contact_uri, route, do_register) ==
    LET prev_request == IF w.self.current_request # None
                        THEN w.self.current_request
                        ELSE w.self.last_request
        call_id == IF prev_request # None
                   THEN w.requests[prev_request].call_id ELSE None
        cseq    == IF prev_request # None
                   THEN w.requests[prev_request].cseq + 1 ELSE 1
    IN Request("REGISTER", call_id, cseq, contact_uri, route,
               IF do_register THEN Duration ELSE 0, None, None,
               Len(w.requests) + 1)

\* The cancellation without the call of _current_request.end().
cancel_current_request_without_end(w) ==
    IF w.self.current_request # None
    THEN [w EXCEPT !.self.current_request = None]
    ELSE w

\* "we are trying to send something already, cancel whatever it is"
cancel_current_request(w) ==
    IF w.self.current_request # None
    THEN [Request_end(w, w.self.current_request)
            EXCEPT !.self.current_request = None]
    ELSE w

\* Registration._make_and_send_request assigning _unregistering and
\* _current_request before request.send instead of after it.
Registration_make_and_send_request_current_first(w, contact_uri, route, do_register, send_result) ==
    LET request == Len(w.requests) + 1
        w1 == [w EXCEPT !.requests =
                 Append(@, Registration_new_request(w, contact_uri, route,
                                                    do_register))]
        w2 == add_observer(w1, request)
        w3 == [cancel_current_request(w2)
                 EXCEPT !.self.unregistering = ~do_register,
                        !.self.current_request = request]
        w4 == Request_send(w3, request, send_result)
    IN IF w4.raised # "none"
       THEN remove_observer(w4, request)
       ELSE w4

Registration_make_and_send_request(w, contact_uri, route, do_register, send_result) ==
    LET request == Len(w.requests) + 1
        w1 == [w EXCEPT !.requests =
                 Append(@, Registration_new_request(w, contact_uri, route,
                                                    do_register))]
        w2 == add_observer(w1, request)
        w3 == cancel_current_request(w2)
        w4 == Request_send(w3, request, send_result)
    IN IF w4.raised # "none"
       THEN remove_observer(w4, request)
       ELSE [w4 EXCEPT !.self.unregistering = ~do_register,
                       !.self.current_request = request]

Registration_register(w, contact_uri, route, send_result) ==
    Registration_make_and_send_request(w, contact_uri, route, TRUE, send_result)

\* Registration.end raising when nothing is registered, as Publication.end does.
Registration_end_raising_when_inactive(w, send_result) ==
    IF w.self.last_request = None
    THEN [w EXCEPT !.raised = "RuntimeError"]
    ELSE
      LET w1 == Registration_make_and_send_request(
                    w, w.requests[w.self.last_request].contact_uri,
                    w.requests[w.self.last_request].route, FALSE, send_result)
      IN IF w1.raised # "none" THEN w1
         ELSE post_notification(w1, [name |-> "SIPRegistrationWillEnd"])

Registration_end(w, send_result) ==
    IF w.self.last_request = None THEN w
    ELSE
      LET w1 == Registration_make_and_send_request(
                    w, w.requests[w.self.last_request].contact_uri,
                    w.requests[w.self.last_request].route, FALSE, send_result)
      IN IF w1.raised # "none" THEN w1
         ELSE post_notification(w1, [name |-> "SIPRegistrationWillEnd"])

\* ----------------------------------------------- Publication operations
\* Publication's request built without the SIP-If-Match header.
Publication_new_request_without_if_match(w, body, route, do_publish) ==
    Request("PUBLISH", None, 1, None, route,
            IF do_publish THEN Duration ELSE 0,
            None, body, Len(w.requests) + 1)

\* Publication's request built the way Registration builds its own:
\* call-id and cseq inherited from the previous request.
Publication_new_request_inheriting(w, body, route, do_publish) ==
    LET prev_request == IF w.self.current_request # None
                        THEN w.self.current_request
                        ELSE w.self.last_request
        call_id == IF prev_request # None
                   THEN w.requests[prev_request].call_id ELSE None
        cseq    == IF prev_request # None
                   THEN w.requests[prev_request].cseq + 1 ELSE 1
    IN Request("PUBLISH", call_id, cseq, None, route,
               IF do_publish THEN Duration ELSE 0,
               w.self.last_etag, body, Len(w.requests) + 1)

\* The Request that _make_and_send_request constructs: cseq=1, no call_id,
\* SIP-If-Match when _last_etag is not None.
Publication_new_request(w, body, route, do_publish) ==
    Request("PUBLISH", None, 1, None, route,
            IF do_publish THEN Duration ELSE 0,
            w.self.last_etag, body, Len(w.requests) + 1)

\* Publication._make_and_send_request without the line
\* "self._unpublishing = not do_publish".
Publication_make_and_send_request_without_flag(w, body, route, do_publish, send_result) ==
    LET request == Len(w.requests) + 1
        w1 == [w EXCEPT !.requests =
                 Append(@, Publication_new_request(w, body, route, do_publish))]
        w2 == add_observer(w1, request)
        w3 == cancel_current_request(w2)
        w4 == Request_send(w3, request, send_result)
    IN IF w4.raised # "none"
       THEN remove_observer(w4, request)
       ELSE [w4 EXCEPT !.self.current_request = request]

Publication_make_and_send_request(w, body, route, do_publish, send_result) ==
    LET request == Len(w.requests) + 1
        w1 == [w EXCEPT !.requests =
                 Append(@, Publication_new_request(w, body, route, do_publish))]
        w2 == add_observer(w1, request)
        w3 == cancel_current_request(w2)
        w4 == Request_send(w3, request, send_result)
    IN IF w4.raised # "none"
       THEN remove_observer(w4, request)
       ELSE [w4 EXCEPT !.self.unpublishing = ~do_publish,
                       !.self.current_request = request]

\* Publication.publish without the "elif self._last_etag is None" test.
Publication_publish_without_etag_test(w, body, route, send_result) ==
    IF body = None /\ w.self.last_request = None
    THEN [w EXCEPT !.raised = "ValueError"]
    ELSE Publication_make_and_send_request(w, body, route, TRUE, send_result)

Publication_publish(w, body, route, send_result) ==
    IF body = None /\ w.self.last_request = None
    THEN [w EXCEPT !.raised = "ValueError"]
    ELSE IF body = None /\ w.self.last_etag = None
    THEN [w EXCEPT !.raised = "PublicationError"]
    ELSE Publication_make_and_send_request(w, body, route, TRUE, send_result)

\* Publication.end returning silently when nothing is published, as
\* Registration.end does.
Publication_end_silent_when_inactive(w, send_result) ==
    IF w.self.last_request = None
    THEN w
    ELSE
      LET w1 == Publication_make_and_send_request(
                    w, None, w.requests[w.self.last_request].route, FALSE,
                    send_result)
      IN IF w1.raised # "none" THEN w1
         ELSE post_notification(w1, [name |-> "SIPPublicationWillEnd"])

Publication_end(w, send_result) ==
    IF w.self.last_request = None
    THEN [w EXCEPT !.raised = "PublicationError"]
    ELSE
      LET w1 == Publication_make_and_send_request(
                    w, None, w.requests[w.self.last_request].route, FALSE,
                    send_result)
      IN IF w1.raised # "none" THEN w1
         ELSE post_notification(w1, [name |-> "SIPPublicationWillEnd"])

\* ------------------------------------------------------------ the machine
\* No read of contact_uri or expires_in under way, none made yet.
reader_init ==
    [pc |-> "idle", attr |-> "none", request |-> None, result |-> "none"]

Init ==
    /\ self \in {Registration_init, Publication_init}
    /\ requests = <<>>
    /\ observers = {}
    /\ posted = <<>>
    /\ calls = <<>>
    /\ raised = "none"
    /\ op = [name |-> "init"]
    /\ reader = reader_init

\* An operation ran to its end (or to its raise) and left world w.
Commit(w, o) ==
    /\ Len(w.requests) <= MaxRequests
    /\ self' = w.self
    /\ requests' = w.requests
    /\ observers' = w.observers
    /\ posted' = w.posted
    /\ calls' = w.calls
    /\ raised' = w.raised
    /\ op' = [o EXCEPT !.seen = w.seen]
    /\ reader' = reader

Register ==
    /\ self.class = "Registration"
    /\ \E c \in ContactURIs, rt \in Routes, sr \in SendResults :
         Commit(Registration_register(World, c, rt, sr),
                [name |-> "register", seen |-> <<>>])

RegistrationEnd ==
    /\ self.class = "Registration"
    /\ \E sr \in SendResults :
         Commit(Registration_end(World, sr),
                [name |-> "end", seen |-> <<>>])

Publish ==
    /\ self.class = "Publication"
    /\ \E b \in Bodies, rt \in Routes, sr \in SendResults :
         Commit(Publication_publish(World, b, rt, sr),
                [name |-> "publish", body |-> b, seen |-> <<>>])

PublicationEnd ==
    /\ self.class = "Publication"
    /\ \E sr \in SendResults :
         Commit(Publication_end(World, sr),
                [name |-> "end", seen |-> <<>>])

\* The engine delivers a notification of a request the session observes.
\* A delivery records its notification and what held of its request when it
\* arrived: whether it was the session's _current_request (the completions)
\* or _last_request (the others), and whether the session had already
\* called end() on it.
DeliverDidSucceed ==
    \E r \in observers, e \in ETags, x \in ExpiresValues :
        Commit(handle_notification(World, "SIPRequestDidSucceed", r, 200, e, x),
               [name |-> "SIPRequestDidSucceed",
                is_current |-> (r = self.current_request),
                ended |-> (requests[r].end_calls > 0), seen |-> <<>>])

DeliverDidFail ==
    \E r \in observers, c \in Codes :
        Commit(handle_notification(World, "SIPRequestDidFail", r, c, None, 0),
               [name |-> "SIPRequestDidFail", code |-> c,
                is_current |-> (r = self.current_request),
                ended |-> (requests[r].end_calls > 0), seen |-> <<>>])

DeliverWillExpire ==
    \E r \in observers, x \in ExpiresValues :
        Commit(handle_notification(World, "SIPRequestWillExpire", r, 0, None, x),
               [name |-> "SIPRequestWillExpire",
                is_last |-> (r = self.last_request), seen |-> <<>>])

DeliverDidEnd ==
    \E r \in observers :
        Commit(handle_notification(World, "SIPRequestDidEnd", r, 0, None, 0),
               [name |-> "SIPRequestDidEnd", request |-> r,
                is_last |-> (r = self.last_request), seen |-> <<>>])

\* A Message's operations and the notifications of its request.
MessageBounded(w) == w.requests[w.self.request].end_calls <= MaxEndCalls

MessageSend ==
    \E sr \in SendResults :
        LET w == Message_send(World, sr)
        IN /\ MessageBounded(w)
           /\ Commit(w, [name |-> "send", send_result |-> sr,
                         was_sent |-> Message_is_sent(World), seen |-> <<>>])

MessageEnd ==
    LET w == Message_end(World)
    IN /\ MessageBounded(w)
       /\ Commit(w, [name |-> "end", seen |-> <<>>])

MessageDeliverDidSucceed ==
    \E r \in observers, x \in MessageExpires :
        LET w == handle_notification(World, "SIPRequestDidSucceed", r, 200, None, x)
        IN /\ MessageBounded(w)
           /\ Commit(w, [name |-> "SIPRequestDidSucceed", request |-> r,
                         expires |-> x, seen |-> <<>>])

MessageDeliverDidFail ==
    \E r \in observers, c \in Codes :
        LET w == handle_notification(World, "SIPRequestDidFail", r, c, None, 0)
        IN /\ MessageBounded(w)
           /\ Commit(w, [name |-> "SIPRequestDidFail", request |-> r,
                         code |-> c, seen |-> <<>>])

MessageDeliverWillExpire ==
    \E r \in observers, x \in ExpiresValues :
        LET w == handle_notification(World, "SIPRequestWillExpire", r, 0, None, x)
        IN /\ MessageBounded(w)
           /\ Commit(w, [name |-> "SIPRequestWillExpire", request |-> r,
                         seen |-> <<>>])

MessageDeliverDidEnd ==
    \E r \in observers :
        LET w == handle_notification(World, "SIPRequestDidEnd", r, 0, None, 0)
        IN /\ MessageBounded(w)
           /\ Commit(w, [name |-> "SIPRequestDidEnd", request |-> r,
                         seen |-> <<>>])

Next ==
    \/ Register
    \/ RegistrationEnd
    \/ Publish
    \/ PublicationEnd
    \/ DeliverDidSucceed
    \/ DeliverDidFail
    \/ DeliverWillExpire
    \/ DeliverDidEnd

Spec == Init /\ [][Next]_vars

\* The properties contact_uri and expires_in are lambdas that take no lock:
\*   None if self._last_request is None else self._last_request.contact_uri
\* They read self._last_request twice, and a callback on another thread may
\* run between the two reads.
Attributes(s) ==
    IF s.class = "Registration" THEN {"contact_uri", "expires_in"}
    ELSE {"expires_in"}

\* First read: the test "self._last_request is None"; the default (None or
\* 0) is returned when it is true.
ReadTest ==
    /\ reader.pc = "idle"
    /\ \E attr \in Attributes(self) :
          reader' = IF self.last_request = None
                    THEN [pc |-> "idle", attr |-> attr, request |-> None,
                          result |-> "default"]
                    ELSE [pc |-> "tested", attr |-> attr,
                          request |-> self.last_request, result |-> "none"]
    /\ UNCHANGED <<self, requests, observers, posted, calls, raised, op>>

\* Second read: self._last_request.<attr>; the attribute of None raises
\* AttributeError.
ReadDereference ==
    /\ reader.pc = "tested"
    /\ reader' = IF self.last_request = None
                 THEN [pc |-> "idle", attr |-> reader.attr, request |-> None,
                       result |-> "AttributeError"]
                 ELSE [pc |-> "idle", attr |-> reader.attr,
                       request |-> self.last_request, result |-> "value"]
    /\ UNCHANGED <<self, requests, observers, posted, calls, raised, op>>

NextRead ==
    \/ Next
    \/ ReadTest
    \/ ReadDereference

SpecRead == Init /\ [][NextRead]_vars

InitMessage ==
    /\ self = Message_init
    /\ \E route \in Routes, body \in MessageBodies :
           requests = Message_init_requests(route, body)
    /\ observers = {}
    /\ posted = <<>>
    /\ calls = <<>>
    /\ raised = "none"
    /\ op = [name |-> "init"]
    /\ reader = reader_init

NextMessage ==
    \/ MessageSend
    \/ MessageEnd
    \/ MessageDeliverDidSucceed
    \/ MessageDeliverDidFail
    \/ MessageDeliverWillExpire
    \/ MessageDeliverDidEnd

SpecMessage == InitMessage /\ [][NextMessage]_vars

\* --------------------------------------------------------------- helpers
Created == 1..Len(requests)
AllSent == \A i \in Created : requests[i].state # "INIT"
Completion == {"SIPRequestDidSucceed", "SIPRequestDidFail"}

\* C1: in every reachable state of a Registration or Publication session,
\* _current_request and _last_request each hold at most one request the
\* session created, and when both are present they are different requests.
C1_CurrentAndLastDistinct ==
    /\ self.current_request \in Created \cup {None}
    /\ self.last_request \in Created \cup {None}
    /\ (self.current_request # None /\ self.last_request # None)
          => self.current_request # self.last_request

\* C1 witness: a confirmed request and an in-flight one held together,
\* reached by a success followed by a new register/publish.
C1_Witness ==
    /\ self.current_request # None
    /\ self.last_request # None
    /\ op.name \in {"register", "publish"}

\* C2 (as claimed): in a Registration session whose requests were all sent,
\* a request created under the call-id of the request created just before
\* it has that request's cseq plus 1, so no cseq is used twice under one
\* call-id.
C2_CseqAlwaysPreviousPlusOne ==
    (self.class = "Registration" /\ AllSent) =>
        \A i \in Created :
            (i > 1 /\ requests[i].call_id = requests[i - 1].call_id)
              => requests[i].cseq = requests[i - 1].cseq + 1

C4_CallIdNeverChanges ==
    (self.class = "Registration" /\ AllSent) =>
        \A i \in Created : i > 1 => requests[i].call_id_arg = requests[1].call_id

\* C5: a SIPRequestDidSucceed or SIPRequestDidFail whose request is not
\* _current_request, and a SIPRequestWillExpire whose request is not
\* _last_request, posts no notification and leaves every field of the
\* session (_current_request, _last_request, the ending flag, _last_etag)
\* unchanged, in Registration and in Publication.
C5_StaleDeliveryChangesNothing ==
    [][(\/ (op'.name \in Completion /\ ~op'.is_current)
        \/ (op'.name = "SIPRequestWillExpire" /\ ~op'.is_last))
         => (posted' = <<>> /\ self' = self /\ calls' = <<>>)]_vars

\* C5 witness: a 412 failure delivered to a Publication session for a
\* request that is not the current one while an entity tag is held.
C5_Witness ==
    /\ self.class = "Publication"
    /\ op.name = "SIPRequestDidFail"
    /\ ~op.is_current
    /\ op.code = PreconditionFailed
    /\ self.last_etag # None
    /\ self.current_request # None
\* C6 (as claimed): after a SIPRequestDidFail with code 412 delivered to a
\* Publication session for a request it created, _last_etag is None; stated
\* here for the requests the session has superseded by a later one.
C6_Any412ClearsETag ==
    (self.class = "Publication" /\ op.name = "SIPRequestDidFail"
        /\ op.code = PreconditionFailed /\ op.ended)
      => self.last_etag = None

\* C6 (amended): after a SIPRequestDidFail with code 412 delivered to a
\* Publication session for the request that is its _current_request,
\* _last_etag is None, whether that request was a publish or a teardown.
C6_412OfCurrentClearsETag ==
    (self.class = "Publication" /\ op.name = "SIPRequestDidFail"
        /\ op.code = PreconditionFailed /\ op.is_current)
      => self.last_etag = None

\* C6 witness: the 412 failure of an in-flight teardown, answered with
\* SIPPublicationDidNotEnd.
C6_Witness ==
    /\ self.class = "Publication"
    /\ op.name = "SIPRequestDidFail"
    /\ op.code = PreconditionFailed
    /\ op.is_current
    /\ self.unpublishing
    /\ self.last_request # None
    /\ posted = <<[name |-> "SIPPublicationDidNotEnd", code |-> PreconditionFailed]>>

\* An operation that created no request, touched no request, added no
\* observer, posted nothing and left the session's fields alone.
NothingDone ==
    /\ self' = self
    /\ requests' = requests
    /\ observers' = observers
    /\ posted' = <<>>
    /\ calls' = <<>>

\* C7: Publication.publish with body None raises ValueError when
\* _last_request is None and PublicationError when _last_request is held
\* but _last_etag is None, and then does nothing else; publish with a body
\* raises neither.
C7_PublishWithoutBody ==
    [][(self.class = "Publication" /\ op'.name = "publish") =>
         IF op'.body = None /\ self.last_request = None
         THEN raised' = "ValueError" /\ NothingDone
         ELSE IF op'.body = None /\ self.last_etag = None
         THEN raised' = "PublicationError" /\ NothingDone
         ELSE raised' \notin {"ValueError", "PublicationError"}]_vars

\* C7 witness: a body-less publish refused with PublicationError while a
\* confirmed request is held without an entity tag.
C7_Witness ==
    /\ self.class = "Publication"
    /\ op.name = "publish"
    /\ op.body = None
    /\ raised = "PublicationError"
    /\ self.last_request # None
    /\ self.last_etag = None

\* C8: Registration.end with _last_request None does nothing at all, also
\* while a first register is in flight: no request created or ended, no
\* notification, no exception, no field changed.
C8_RegistrationEndInactiveIsNoOp ==
    [][(self.class = "Registration" /\ op'.name = "end"
          /\ self.last_request = None)
         => (NothingDone /\ raised' = "none")]_vars

\* C8 witness: end called while the first register is still in flight.
C8_Witness ==
    /\ self.class = "Registration"
    /\ op.name = "end"
    /\ self.last_request = None
    /\ self.current_request # None
    /\ requests[self.current_request].end_calls = 0

\* C9: Publication.end with _last_request None raises PublicationError,
\* creates no request, posts no SIPPublicationWillEnd and leaves
\* _current_request, _last_etag and _unpublishing unchanged.
C9_PublicationEndInactiveRaises ==
    [][(self.class = "Publication" /\ op'.name = "end"
          /\ self.last_request = None)
         => (NothingDone /\ raised' = "PublicationError")]_vars

\* C9 witness: end refused while a first publish is in flight.
C9_Witness ==
    /\ self.class = "Publication"
    /\ op.name = "end"
    /\ raised = "PublicationError"
    /\ self.last_request = None
    /\ self.current_request # None

\* C10: when register, publish or end creates a request while
\* _current_request is held, the old request gets its one and only end call
\* before the new request is sent, the session stays subscribed to the old
\* request (it does not wait for SIPRequestDidEnd), a call that returns
\* normally leaves the new request as _current_request, and a callback run
\* while the new request is being sent finds neither request current.
C10_SupersedeCurrent ==
    [][(op'.name \in {"register", "publish", "end"}
          /\ Len(requests') = Len(requests) + 1
          /\ self.current_request # None) =>
         LET old == self.current_request
             new == Len(requests')
         IN /\ requests[old].end_calls = 0
            /\ requests'[old].end_calls = 1
            /\ calls'[1] = <<"end", old>>
            /\ old \in observers => old \in observers'
            /\ raised' = "none" =>
                 /\ calls' = << <<"end", old>>, <<"send", new>> >>
                 /\ self'.current_request = new
            /\ \A i \in DOMAIN op'.seen : op'.seen[i].current_request = None
            /\ \A r \in 1..Len(requests) : requests'[r].end_calls <= 1]_vars

\* C10 witness: a register that superseded an in-flight request while the
\* engine delivered the new request's success during send.
C10_Witness ==
    /\ op.name = "register"
    /\ Len(op.seen) = 1
    /\ op.seen[1].current_request = None
    /\ Len(calls) = 2
    /\ calls[1][1] = "end"
    /\ self.current_request = Len(requests)
    /\ self.last_request # None

\* C11 (as claimed): on a fresh Registration session, after register (T1),
\* T1's success and a second register (T2) with nothing in between, T2 has
\* T1's call-id and T1's cseq plus 1, and T1 has received an end call.
C11_SecondRegisterEndsFirst ==
    (self.class = "Registration" /\ op.name = "register" /\ raised = "none"
        /\ Len(requests) = 2 /\ AllSent
        /\ self.last_request = 1 /\ self.current_request = 2)
      => /\ requests[2].call_id_arg = requests[1].call_id
         /\ requests[2].cseq = requests[1].cseq + 1
         /\ requests[1].end_calls = 1

\* C11 (amended): on a fresh Registration session, register creates T1; its
\* success with expires=300 posts SIPRegistrationDidSucceed with
\* expires_in=300 and makes T1 the confirmed request; the register that
\* follows creates T2 with T1's call-id and T1's cseq plus 1, and T1
\* receives no end call: it stays the confirmed request.
C11_RegisterSucceedRegister ==
    [][self.class = "Registration" =>
         /\ (requests = <<>> /\ op'.name = "register" /\ raised' = "none")
              => /\ Len(requests') = 1
                 /\ requests'[1].cseq = 1
                 /\ requests'[1].call_id_arg = None
                 /\ self'.current_request = 1
         /\ (Len(requests) = 1 /\ self.current_request = 1
               /\ self.last_request = None
               /\ op'.name = "SIPRequestDidSucceed" /\ op'.is_current)
              => /\ posted' = <<[name |-> "SIPRegistrationDidSucceed",
                                code |-> 200,
                                contact_uri |-> requests[1].contact_uri,
                                expires_in |-> Duration,
                                route |-> requests[1].route]>>
                 /\ self'.last_request = 1
                 /\ self'.current_request = None
         /\ (Len(requests) = 1 /\ self.current_request = None
               /\ self.last_request = 1
               /\ op'.name = "register" /\ raised' = "none")
              => /\ Len(requests') = 2
                 /\ requests'[2].call_id_arg = requests[1].call_id
                 /\ requests'[2].cseq = requests[1].cseq + 1
                 /\ requests'[1].end_calls = 0
                 /\ calls' = << <<"send", 2>> >>
                 /\ self'.last_request = 1
                 /\ self'.current_request = 2]_vars

\* C11 witness: the end of the scenario, T1 confirmed and never ended, T2
\* in flight under T1's call-id.
C11_Witness ==
    /\ self.class = "Registration"
    /\ op.name = "register"
    /\ Len(requests) = 2
    /\ self.last_request = 1
    /\ self.current_request = 2
    /\ requests[1].end_calls = 0
    /\ requests[2].call_id = requests[1].call_id
    /\ requests[2].cseq = 2

\* C12: on a fresh Publication session, after publish(body) (T1) succeeded
\* with an entity tag, publish(None) is accepted and its request T2 carries
\* SIP-If-Match equal to that tag; T2's failure with code 412 clears
\* _last_etag and leaves T1 confirmed; the publish(None) after that raises
\* PublicationError and creates no request.
C12_PublishRefresh412Publish ==
    [][(self.class = "Publication" /\ self.last_request = 1
          /\ requests[1].body # None) =>
         /\ (Len(requests) = 1 /\ self.current_request = None
               /\ self.last_etag # None
               /\ op'.name = "publish" /\ op'.body = None)
              => /\ raised' \notin {"ValueError", "PublicationError"}
                 /\ Len(requests') = 2
                 /\ requests'[2].if_match = self.last_etag
                 /\ requests'[2].body = None
                 /\ raised' = "none" => self'.current_request = 2
         /\ (Len(requests) = 2 /\ self.current_request = 2
               /\ requests[2].body = None /\ requests[2].Expires # 0
               /\ op'.name = "SIPRequestDidFail" /\ op'.is_current
               /\ op'.code = PreconditionFailed)
              => /\ self'.last_etag = None
                 /\ self'.last_request = 1
                 /\ self'.current_request = None
                 /\ posted' = <<[name |-> "SIPPublicationDidFail",
                                code |-> PreconditionFailed,
                                route |-> requests[2].route]>>
         /\ (Len(requests) = 2 /\ self.current_request = None
               /\ self.last_etag = None
               /\ op'.name = "publish" /\ op'.body = None)
              => /\ raised' = "PublicationError"
                 /\ NothingDone]_vars

\* C12 witness: the third publish refused: T1 confirmed, T2 sent with the
\* tag in SIP-If-Match, the tag gone, no third request.
C12_Witness ==
    /\ self.class = "Publication"
    /\ op.name = "publish"
    /\ op.body = None
    /\ raised = "PublicationError"
    /\ Len(requests) = 2
    /\ self.last_request = 1
    /\ requests[2].if_match # None
    /\ requests[2].body = None
    /\ requests[2].Expires # 0
    /\ requests[2].state = "IN_PROGRESS"
    /\ self.last_etag = None

\* C13: in all three session types, when the request's send raises at
\* dispatch, the session removes the observer it had just added and the
\* failure reaches the caller of register/publish/end/send. Stated here for
\* Message.send, the case that decides it: after a send whose request.send
\* raised, the observer is gone and the call raised.
C13_DispatchFailurePropagates ==
    (self.class = "Message" /\ op.name = "send" /\ ~op.was_sent
        /\ op.send_result = "raise")
      => /\ self.request \notin observers
         /\ raised = "SendError"

\* C14: a Message holds the one request made by __init__ for its whole
\* life, and once that request's state is past INIT every send() raises
\* RuntimeError, adds no observer, calls request.send no more and changes
\* nothing.
C14_SecondSendRaises ==
    [][self.class = "Message" =>
         /\ self' = self
         /\ Len(requests') = 1
         /\ (Message_is_sent(World) /\ op'.name = "send")
              => /\ raised' = "RuntimeError"
                 /\ NothingDone]_vars

\* C14 witness: a send refused after the request was sent and ended, the
\* session left without an observer.
C14_Witness ==
    /\ self.class = "Message"
    /\ op.name = "send"
    /\ op.was_sent
    /\ raised = "RuntimeError"
    /\ requests[self.request].state = "IN_PROGRESS"
    /\ observers = {}
    /\ calls = <<>>

\* The outcome events of a request: Succeeded, Failed, DidNotEnd, and Ended
\* with expired false.
IsOutcome(e) ==
    \/ e.name \in {"SIPRegistrationDidSucceed", "SIPRegistrationDidFail",
                   "SIPRegistrationDidNotEnd", "SIPPublicationDidSucceed",
                   "SIPPublicationDidFail", "SIPPublicationDidNotEnd"}
    \/ /\ e.name \in {"SIPRegistrationDidEnd", "SIPPublicationDidEnd"}
       /\ ~e.expired

Outcomes(events) == {i \in 1..Len(events) : IsOutcome(events[i])}

\* C15: a request of a Registration or Publication causes at most one
\* outcome event (Succeeded, Failed, Ended with expired false, DidNotEnd),
\* whatever completion notifications are delivered for it and in whatever
\* order. Every step that posts an outcome event is the delivery of a
\* completion for the request that is _current_request, posts exactly one,
\* and leaves _current_request None; and _current_request only ever moves
\* to None or to a request created in that step, so no request is current
\* again after its outcome.
C15_AtMostOneOutcomePerRequest ==
    [][/\ Outcomes(posted') # {} =>
            /\ op'.name \in Completion
            /\ op'.is_current
            /\ self.current_request # None
            /\ self'.current_request = None
            /\ Cardinality(Outcomes(posted')) = 1
       /\ self'.current_request \in
             {None, self.current_request}
                \cup ((Len(requests) + 1)..Len(requests'))]_vars

\* C15 witness: the only request succeeded and is confirmed, and a failure
\* then delivered for the same request posted nothing.
C15_Witness ==
    /\ Len(requests) = 1
    /\ self.last_request = 1
    /\ self.current_request = None
    /\ requests[1].end_calls = 0
    /\ op.name = "SIPRequestDidFail"
    /\ ~op.is_current
    /\ posted = <<>>

\* C17: when a Registration is registered and the refresh in flight (a
\* register request that is _current_request) fails, the session posts
\* SIPRegistrationDidFail and nothing else, clears _current_request and
\* leaves _last_request as it was: is_registered stays true and contact_uri
\* still is the confirmed request's contact.
C17_RefreshFailureKeepsRegistration ==
    [][(/\ self.class = "Registration"
        /\ Registration_is_registered(self)
        /\ self.current_request # None
        /\ requests[self.current_request].Expires # 0
        /\ op'.name = "SIPRequestDidFail"
        /\ op'.is_current) =>
         /\ posted' = <<[name |-> "SIPRegistrationDidFail",
                         code |-> op'.code,
                         route |-> requests[self.current_request].route]>>
         /\ self'.current_request = None
         /\ self'.last_request = self.last_request
         /\ Registration_is_registered(self')
         /\ Registration_contact_uri(self', requests')
               = requests[self.last_request].contact_uri]_vars

\* C17 witness: a refresh sent with another contact failed; the session is
\* still registered with the confirmed request.
C17_Witness ==
    /\ self.class = "Registration"
    /\ op.name = "SIPRequestDidFail"
    /\ op.is_current
    /\ Len(requests) = 2
    /\ self.last_request = 1
    /\ self.current_request = None
    /\ requests[2].Expires # 0
    /\ requests[2].contact_uri # requests[1].contact_uri
    /\ posted # <<>>
    /\ posted[1].name = "SIPRegistrationDidFail"

\* C18: SIPRequestDidEnd delivered for _last_request makes the session idle
\* in that one step: _last_request is cleared, a _current_request in flight
\* receives one end call and is cleared, a Publication also clears
\* _last_etag, and exactly one event is posted, DidEnd with expired true.
\* A completion delivered to the idle session afterwards, such as that of
\* the cancelled request, changes nothing.
C18_LastRequestEndedMakesIdle ==
    [][/\ (self.class \in {"Registration", "Publication"}
              /\ op'.name = "SIPRequestDidEnd" /\ op'.is_last) =>
            /\ self'.last_request = None
            /\ self'.current_request = None
            /\ IF self.current_request # None
               THEN /\ calls' = <<<<"end", self.current_request>>>>
                    /\ requests'[self.current_request].end_calls
                          = requests[self.current_request].end_calls + 1
               ELSE calls' = <<>>
            /\ self.class = "Publication" => self'.last_etag = None
            /\ posted' = <<[name |-> IF self.class = "Registration"
                                     THEN "SIPRegistrationDidEnd"
                                     ELSE "SIPPublicationDidEnd",
                            expired |-> TRUE]>>
       /\ (self.class \in {"Registration", "Publication"}
              /\ self.last_request = None /\ self.current_request = None
              /\ op'.name \in Completion) =>
            NothingDone]_vars

\* C18 witness: the confirmed request ended while another was in flight,
\* the in-flight one was cancelled, and its completion then arrived at the
\* idle session and posted nothing.
C18_Witness ==
    /\ self.class \in {"Registration", "Publication"}
    /\ Len(requests) = 2
    /\ self.last_request = None
    /\ self.current_request = None
    /\ observers = {2}
    /\ requests[1].end_calls = 0
    /\ requests[2].end_calls = 1
    /\ op.name \in Completion
    /\ posted = <<>>

\* C19: when the success of the teardown request in flight is delivered,
\* the confirmed _last_request receives one end call and is cleared, the
\* session is inactive (a Publication also clears _last_etag) and exactly
\* one event is posted, DidEnd with expired false; a SIPRequestDidEnd for a
\* request that is not _last_request, such as the retired one, posts
\* nothing and leaves the session as it is.
C19_TeardownSuccessRetiresLast ==
    [][self.class \in {"Registration", "Publication"} =>
         /\ (self.current_request # None
               /\ requests[self.current_request].Expires = 0
               /\ op'.name = "SIPRequestDidSucceed" /\ op'.is_current) =>
              /\ self.last_request # None
              /\ calls' = <<<<"end", self.last_request>>>>
              /\ requests'[self.last_request].end_calls
                    = requests[self.last_request].end_calls + 1
              /\ self'.last_request = None
              /\ self'.current_request = None
              /\ self.class = "Publication" => self'.last_etag = None
              /\ posted' = <<[name |-> IF self.class = "Registration"
                                       THEN "SIPRegistrationDidEnd"
                                       ELSE "SIPPublicationDidEnd",
                              expired |-> FALSE]>>
         /\ (op'.name = "SIPRequestDidEnd" /\ ~op'.is_last) =>
              /\ posted' = <<>>
              /\ self' = self
              /\ op'.request \notin observers']_vars

\* C19 witness: request 1 was retired by the success of teardown request 2
\* and its SIPRequestDidEnd then arrived and posted nothing.
C19_Witness ==
    /\ self.class \in {"Registration", "Publication"}
    /\ Len(requests) = 2
    /\ requests[2].Expires = 0
    /\ requests[1].end_calls = 1
    /\ self.last_request = None
    /\ self.current_request = None
    /\ op.name = "SIPRequestDidEnd"
    /\ op.request = 1
    /\ ~op.is_last
    /\ 1 \notin observers
    /\ posted = <<>>

\* The events that report the result of a teardown request.
IsTeardownResult(e) ==
    \/ e.name \in {"SIPRegistrationDidNotEnd", "SIPPublicationDidNotEnd"}
    \/ /\ e.name \in {"SIPRegistrationDidEnd", "SIPPublicationDidEnd"}
       /\ ~e.expired

\* C20: an end() call of a Registration or Publication that dispatches a
\* teardown request posts WillEnd, and nothing but WillEnd, before it
\* returns; an end() that does nothing or raises posts nothing. DidEnd with
\* expired false and DidNotEnd are posted only by a later step, the
\* delivery of the completion of the teardown request that is
\* _current_request, so never before that teardown's WillEnd.
C20_WillEndBeforeTeardownResult ==
    [][self.class \in {"Registration", "Publication"} =>
         /\ op'.name = "end" =>
              IF Len(requests') > Len(requests) /\ raised' = "none"
              THEN /\ posted' = <<[name |-> IF self.class = "Registration"
                                            THEN "SIPRegistrationWillEnd"
                                            ELSE "SIPPublicationWillEnd"]>>
                   /\ self'.current_request = Len(requests')
                   /\ requests'[Len(requests')].Expires = 0
                   /\ requests'[Len(requests')].state = "IN_PROGRESS"
              ELSE posted' = <<>>
         /\ (\E i \in 1..Len(posted') : IsTeardownResult(posted'[i])) =>
              /\ op'.name \in Completion
              /\ op'.is_current
              /\ requests[self.current_request].Expires = 0
              /\ requests[self.current_request].state = "IN_PROGRESS"]_vars

\* C20 witness: the result of a teardown posted by the delivery of its
\* completion, a step after the end() that posted WillEnd.
C20_Witness ==
    /\ self.class \in {"Registration", "Publication"}
    /\ op.name \in Completion
    /\ op.is_current
    /\ Len(posted) = 1
    /\ IsTeardownResult(posted[1])
    /\ requests[Len(requests)].Expires = 0

\* C16 as stated: every request held as _current_request or _last_request
\* is one the session still observes.
C16_HeldRequestsAreObserved ==
    self.class \in {"Registration", "Publication"} =>
      /\ self.current_request # None => self.current_request \in observers
      /\ self.last_request # None => self.last_request \in observers

\* C16: after SIPRequestDidEnd is delivered for a request the session no
\* longer observes it, whatever the request's role; _last_request is always
\* a request the session observes; and _current_request is one the session
\* observes unless SIPRequestDidEnd was delivered for it while it was
\* current, which removes the observer and leaves it held.
C16_DidEndUnsubscribes ==
    [][/\ op'.name = "SIPRequestDidEnd" => op'.request \notin observers'
       /\ self.class \in {"Registration", "Publication"} =>
            /\ self'.last_request # None => self'.last_request \in observers'
            /\ (self'.current_request # None
                  /\ self'.current_request \notin observers') =>
                 /\ self'.current_request = self.current_request
                 /\ \/ self.current_request \notin observers
                    \/ /\ op'.name = "SIPRequestDidEnd"
                       /\ op'.request = self.current_request]_vars

\* C16 witness: SIPRequestDidEnd delivered for the request in flight, which
\* is still _current_request and no longer observed, beside a confirmed
\* request that is.
C16_Witness ==
    /\ self.class \in {"Registration", "Publication"}
    /\ op.name = "SIPRequestDidEnd"
    /\ self.current_request # None
    /\ op.request = self.current_request
    /\ self.current_request \notin observers
    /\ self.last_request # None
    /\ self.last_request \in observers

\* C21: when the engine delivers the success of the request just sent by
\* register or publish on the call stack of request.send, the success takes
\* effect: the request is _last_request, SIPRegistrationDidSucceed or
\* SIPPublicationDidSucceed was posted by the call, and the request is not
\* left as _current_request.
C21_SyncSuccessTakesEffect ==
    (/\ self.class \in {"Registration", "Publication"}
     /\ op.name \in {"register", "publish"}
     /\ raised = "none"
     /\ Len(op.seen) = 1
     /\ op.seen[1].notification = "SIPRequestDidSucceed")
      => /\ self.last_request = Len(requests)
         /\ self.current_request # Len(requests)
         /\ \E i \in 1..Len(posted) :
                posted[i].name \in {"SIPRegistrationDidSucceed",
                                    "SIPPublicationDidSucceed"}

\* C22: a read of contact_uri or expires_in made while callbacks run on
\* another thread never fails: it returns a confirmed request's value or
\* the default.
C22_ReadNeverFails == reader.result # "AttributeError"

\* C23: every request a Publication creates without a body, by
\* publish(None) or by end(), carries the SIP-If-Match header, that is, it
\* was created while _last_etag was not None.
C23_BodylessRequestCarriesIfMatch ==
    self.class = "Publication" =>
      \A i \in Created :
          requests[i].body = None => requests[i].if_match # None

\* C24: in a Publication _last_etag is not None only if _last_request is
\* not None: every step that clears _last_request leaves _last_etag None,
\* and the only step after which a tag is held that was not held before,
\* or is held beside another _last_request, is the success of the publish
\* request in flight, which makes that request _last_request.
C24_ETagOnlyWithLastRequest ==
    [][self.class = "Publication" =>
         LET publish_succeeded ==
                 /\ op'.name = "SIPRequestDidSucceed"
                 /\ op'.is_current
                 /\ requests[self.current_request].Expires # 0
         IN /\ self'.last_etag # None => self'.last_request # None
            /\ (self.last_request # None /\ self'.last_request = None)
                 => self'.last_etag = None
            /\ (self'.last_etag # None /\ ~publish_succeeded)
                 => /\ self'.last_etag = self.last_etag
                    /\ self'.last_request = self.last_request
            /\ publish_succeeded
                 => self'.last_request = self.current_request]_vars

\* C24 witness: the confirmed request ended while a refresh carrying its
\* tag was still in flight; the tag went with it.
C24_Witness ==
    /\ self.class = "Publication"
    /\ op.name = "SIPRequestDidEnd"
    /\ op.is_last
    /\ Len(requests) = 2
    /\ requests[2].if_match # None
    /\ requests[2].end_calls = 1
    /\ self.last_request = None
    /\ self.last_etag = None

\* The flag _unregistering of a Registration, _unpublishing of a Publication.
Ending(s) ==
    IF s.class = "Registration" THEN s.unregistering ELSE s.unpublishing

\* C25: whenever a Registration or Publication holds a _current_request,
\* its flag _unregistering / _unpublishing is true exactly when that
\* request was created by end() (Expires 0), and then _last_request is
\* held too; and a step that posts DidEnd starts with _last_request held
\* and ends with neither request held.
C25_EndingFlagMatchesCurrent ==
    [][self.class \in {"Registration", "Publication"} =>
         /\ self'.current_request # None =>
              /\ Ending(self') <=> requests'[self'.current_request].Expires = 0
              /\ Ending(self') => self'.last_request # None
         /\ (\E i \in 1..Len(posted') :
                 posted'[i].name \in {"SIPRegistrationDidEnd",
                                      "SIPPublicationDidEnd"}) =>
              /\ self.last_request # None
              /\ self'.last_request = None
              /\ self'.current_request = None]_vars

\* C25 witness: a teardown request in flight that superseded a refresh,
\* the flag set and the confirmed request still held.
C25_Witness ==
    /\ self.class \in {"Registration", "Publication"}
    /\ op.name = "end"
    /\ Len(requests) = 3
    /\ requests[2].Expires # 0
    /\ requests[2].end_calls = 1
    /\ self.current_request = 3
    /\ requests[3].Expires = 0
    /\ Ending(self)
    /\ self.last_request = 1

====
